---- MODULE Spec2Model ----
(***************************************************************************)
(* A model of two engines of vrp-core:                                     *)
(*   - ActionsEstimate (algorithms/mdp/mod.rs): a map from action to an    *)
(*     estimate with cached extremes and two selection modes;              *)
(*   - DominancePopulation (solver/population.rs): a bounded population    *)
(*     which is re-ranked on every insertion.                              *)
(* Estimates are fixed-point numbers in hundredths (Scale), so that the    *)
(* 0.01 offset of weighted is the integer 1.                               *)
(***************************************************************************)
EXTENDS Integers, Sequences, FiniteSets, TLC

VARIABLES
    estimates,            \* ActionsEstimate.estimates: action -> estimate
    max_estimate,         \* ActionsEstimate.max_estimate: None or Some(<<action, value>>)
    min_estimate,         \* ActionsEstimate.min_estimate
    ae_call,              \* the last ActionsEstimate call and what it returned
    pop_state,            \* "none", "live" or "panicked": does a population exist
    max_population_size,  \* DominancePopulation.max_population_size
    individuals,          \* DominancePopulation.individuals
    ranks,                \* DominancePopulation.ranks
    pop_call,             \* the last population call and what it was given
    inserted              \* scenario log: what was given to the population, as counts or in order

vars == <<estimates, max_estimate, min_estimate, ae_call,
          pop_state, max_population_size, individuals, ranks, pop_call, inserted>>

ae_vars == <<estimates, max_estimate, min_estimate, ae_call>>

pop_vars == <<pop_state, max_population_size, individuals, ranks, pop_call, inserted>>

-----------------------------------------------------------------------------
(* Bounds and units *)

\* estimates range over -MaxAbsEstimate .. MaxAbsEstimate (whole units)
MaxAbsEstimate == 2

\* -ln(U) for a draw U in (0,1) ranges over 1 .. MaxLn
MaxLn == 2

\* one unit of estimate in fixed point: 0.01 is 1
Scale == 100

\* the offset weighted uses for a zero minimum: 0.01
ZERO_OFFSET == 1

Actions == {"A", "B"}

\* the actions of the runs in which no action is inserted twice
FreshActions == {"A", "B", "C"}

Values == {v * Scale : v \in (0 - MaxAbsEstimate)..MaxAbsEstimate}

LnDraws == 1..MaxLn

\* new is called with sizes 0 .. MaxCapacity
MaxCapacity == 3

\* add_all is called with lists of up to MaxBatch individuals
MaxBatch == 2

\* a scenario gives up to MaxInserted individuals to a population
MaxInserted == 5

\* the individuals given to a population: <<1, 0>>, <<1, 1>>, <<2, 2>> dominate one
\* another in a chain, and <<0, 2>> is dominated by none and dominates <<2, 2>> alone
Individuals == {<<0, 2>>, <<1, 0>>, <<1, 1>>, <<2, 2>>}

\* the front of the scenario of five mutually non-dominated individuals
FrontIndividuals == {<<1, 5>>, <<2, 4>>, <<3, 3>>, <<4, 2>>, <<5, 1>>}

\* the chain of the scenario in which each individual dominates the next one
ChainIndividuals == {<<0, 0>>, <<1, 1>>, <<2, 2>>}

\* the lists of up to MaxBatch members of S
Batches(S) == UNION {[1..n -> S] : n \in 0..MaxBatch}

-----------------------------------------------------------------------------
(* Option and float helpers *)

None == <<>>

Some(x) == <<x>>

Unwrap(o) == o[1]

\* the outcome of a call which panicked
Panic == <<"panic", "panic">>

\* utils::compare_floats on finite fixed-point numbers
compare_floats(a, b) == IF a < b THEN "Less" ELSE IF a > b THEN "Greater" ELSE "Equal"

EmptyMap == [a \in {} |-> 0]

MaxOf(S) == CHOOSE x \in S : \A y \in S : y <= x

MinOf(S) == CHOOSE x \in S : \A y \in S : x <= y

ValuesOf(map) == {map[a] : a \in DOMAIN map}

-----------------------------------------------------------------------------
(* ActionsEstimate *)

\* insert, the cached maximum with the seeding or_else dropped (mutant)
update_max_unseeded(old, action, estimate) ==
    IF old # None /\ ~(estimate > Unwrap(old)[2]) THEN old
    ELSE IF old = None THEN None ELSE Some(<<action, estimate>>)

\* insert, lines 62-66: keep the cached maximum unless the estimate is greater
update_max(old, action, estimate) ==
    IF old # None /\ ~(estimate > Unwrap(old)[2]) THEN old
    ELSE Some(<<action, estimate>>)

\* insert, the cached minimum never replaced once it is seeded (mutant)
update_min_seeded_once(old, action, estimate) ==
    IF old # None THEN old ELSE Some(<<action, estimate>>)

\* insert, lines 68-72: keep the cached minimum unless the estimate is smaller
update_min(old, action, estimate) ==
    IF old # None /\ ~(estimate < Unwrap(old)[2]) THEN old
    ELSE Some(<<action, estimate>>)

\* HashMap::insert: sets or overwrites
map_insert(map, action, estimate) ==
    [x \in (DOMAIN map) \cup {action} |-> IF x = action THEN estimate ELSE map[x]]

insert(action, estimate) ==
    /\ estimates' = map_insert(estimates, action, estimate)
    /\ max_estimate' = update_max(max_estimate, action, estimate)
    /\ min_estimate' = update_min(min_estimate, action, estimate)
    /\ ae_call' = [op |-> "insert", overwrite |-> action \in DOMAIN estimates,
                   empty |-> FALSE, out |-> None, request |-> None]
    /\ UNCHANGED pop_vars

\* insert of an action which the estimates do not hold yet
insert_fresh(action, estimate) ==
    /\ action \notin DOMAIN estimates
    /\ insert(action, estimate)

\* Default::default
default ==
    /\ estimates' = EmptyMap
    /\ max_estimate' = None
    /\ min_estimate' = None
    /\ ae_call' = [op |-> "default", overwrite |-> FALSE, empty |-> TRUE,
                   out |-> None, request |-> None]
    /\ UNCHANGED pop_vars

\* From<HashMap> which caches the pair of any action of the map (mutant)
from_extremes_any(map, extreme) ==
    IF DOMAIN map = {} THEN {None}
    ELSE {Some(<<a, map[a]>>) : a \in DOMAIN map}

\* From<HashMap>: max_by / min_by over the map in its (arbitrary) iteration order,
\* so that any action holding the extreme value may be the one cached
from_extremes(map, extreme) ==
    IF DOMAIN map = {} THEN {None}
    ELSE {Some(<<a, map[a]>>) : a \in {x \in DOMAIN map : map[x] = extreme}}

from(map) ==
    /\ estimates' = map
    /\ max_estimate' \in from_extremes(map, MaxOf(ValuesOf(map)))
    /\ min_estimate' \in from_extremes(map, MinOf(ValuesOf(map)))
    /\ ae_call' = [op |-> "from", overwrite |-> FALSE, empty |-> DOMAIN map = {},
                   out |-> None, request |-> None]
    /\ UNCHANGED pop_vars

\* weighted, lines 78-82
offset ==
    IF min_estimate # None /\ Unwrap(min_estimate)[2] < 0 THEN 0 - Unwrap(min_estimate)[2]
    ELSE IF min_estimate # None /\ compare_floats(Unwrap(min_estimate)[2], 0) = "Equal"
         THEN ZERO_OFFSET
         ELSE 0

\* a quotient which is not a number whenever the divisor is zero (mutant)
key_nan_on_zero(ln, value) ==
    IF value = 0 THEN [kind |-> "nan", num |-> 0, den |-> 1]
    ELSE IF value > 0 THEN [kind |-> "fin", num |-> ln, den |-> value]
    ELSE [kind |-> "fin", num |-> 0 - ln, den |-> 0 - value]

\* weighted, line 88: the IEEE quotient -ln(U) / value, with ln standing for -ln(U) >= 0
key(ln, value) ==
    IF value = 0
    THEN IF ln = 0 THEN [kind |-> "nan", num |-> 0, den |-> 1]
                   ELSE [kind |-> "inf", num |-> 1, den |-> 1]
    ELSE IF value > 0 THEN [kind |-> "fin", num |-> ln, den |-> value]
    ELSE [kind |-> "fin", num |-> 0 - ln, den |-> 0 - value]

\* f64::partial_cmp on keys: a <= b; not defined (None in the code) on a NaN
key_le(a, b) ==
    IF b.kind = "inf" THEN TRUE
    ELSE IF a.kind = "inf" THEN FALSE
    ELSE a.num * b.den <= b.num * a.den

\* weighted, lines 84-91: the keys of all actions, then min_by under partial_cmp().unwrap(),
\* which panics when a NaN key is compared; the map's iteration order decides ties
weighted_outcomes(lns) ==
    LET keys == [a \in DOMAIN estimates |-> key(lns[a], estimates[a] + offset)]
    IN  IF DOMAIN estimates = {} THEN {None}
        ELSE IF Cardinality(DOMAIN estimates) > 1 /\ \E a \in DOMAIN keys : keys[a].kind = "nan"
        THEN {Panic}
        ELSE {Some(a) : a \in {x \in DOMAIN keys : \A y \in DOMAIN keys : key_le(keys[x], keys[y])}}

weighted(lns) ==
    /\ ae_call' \in {[op |-> "weighted", overwrite |-> FALSE, empty |-> DOMAIN estimates = {},
                      out |-> o, request |-> None] : o \in weighted_outcomes(lns)}
    /\ UNCHANGED <<estimates, max_estimate, min_estimate>>
    /\ UNCHANGED pop_vars

\* random, line 96: the range asked of Random::uniform_int
random_request == <<0, Cardinality(DOMAIN estimates) - 1>>

\* Random::uniform_int(low, high), inclusive bounds; a range with low > high is invalid,
\* and the source may either reject it (a panic) or hand back one of its ends
uniform_int(low, high) ==
    IF low <= high THEN {[rejected |-> FALSE, value |-> i] : i \in low..high}
    ELSE {[rejected |-> TRUE, value |-> low],
          [rejected |-> FALSE, value |-> low], [rejected |-> FALSE, value |-> high]}

\* random, lines 96-97: keys().nth(idx as usize) in the map's iteration order
random_outcomes(idx) ==
    IF idx.rejected THEN {Panic}
    ELSE IF idx.value >= 0 /\ idx.value < Cardinality(DOMAIN estimates)
         THEN {Some(a) : a \in DOMAIN estimates}
         ELSE {None}

random ==
    /\ \E idx \in uniform_int(random_request[1], random_request[2]) :
          ae_call' \in {[op |-> "random", overwrite |-> FALSE, empty |-> DOMAIN estimates = {},
                         out |-> o, request |-> Some(random_request)] : o \in random_outcomes(idx)}
    /\ UNCHANGED <<estimates, max_estimate, min_estimate>>
    /\ UNCHANGED pop_vars

-----------------------------------------------------------------------------
(* The collaborators of DominancePopulation: Objective and nsga2::select_and_rank *)

\* an individual is identified with its fitness vector of two objectives, lower is better
Objectives == 1..2

\* Objective::fitness: the fitness of an individual
fitness(individual) == individual

\* Pareto dominance: no worse in every objective and better in at least one
dominates(a, b) ==
    /\ \A m \in Objectives : a[m] <= b[m]
    /\ \E m \in Objectives : a[m] < b[m]

\* the non-dominated members of the index set R
front_of(inds, R) == {i \in R : \A j \in R : ~dominates(inds[j], inds[i])}

\* non-dominated sorting: rank 0 is the non-dominated front, rank 1 the front which is
\* left once rank 0 is removed, and so on; the result maps an index to its rank
RECURSIVE non_dominated_sort(_, _, _, _)
non_dominated_sort(inds, R, k, acc) ==
    IF R = {} THEN acc
    ELSE LET F == front_of(inds, R)
         IN  non_dominated_sort(inds, R \ F, k + 1,
                 [i \in (DOMAIN acc) \cup F |-> IF i \in F THEN k ELSE acc[i]])

\* is index j placed before index i when the front is sorted by objective m, stably
placed_before(inds, m, j, i) ==
    \/ inds[j][m] < inds[i][m]
    \/ inds[j][m] = inds[i][m] /\ j < i

\* the share of objective m in the crowding distance of index i of the front F: the
\* ends of the sorted front are infinitely far, the others get the gap between their
\* two neighbours in the sorted front over the spread of the front
distance_in(inds, F, m, i) ==
    LET before == {inds[j][m] : j \in {x \in F : placed_before(inds, m, x, i)}}
        after == {inds[j][m] : j \in {x \in F : placed_before(inds, m, i, x)}}
    IN  IF before = {} \/ after = {} THEN [inf |-> TRUE, num |-> 0, den |-> 1]
        ELSE IF MaxOf(after) = MinOf(before) THEN [inf |-> FALSE, num |-> 0, den |-> 1]
        ELSE [inf |-> FALSE, num |-> MinOf(after) - MaxOf(before),
              den |-> MaxOf(after) - MinOf(before)]

\* the crowding distance of index i within its front F: the sum over the objectives
crowding_distance(inds, F, i) ==
    LET d1 == distance_in(inds, F, 1, i)
        d2 == distance_in(inds, F, 2, i)
    IN  IF d1.inf \/ d2.inf THEN [inf |-> TRUE, num |-> 0, den |-> 1]
        ELSE [inf |-> FALSE, num |-> d1.num * d2.den + d2.num * d1.den, den |-> d1.den * d2.den]

\* utils::compare_floats on crowding distances, which may be infinite
compare_distance(a, b) ==
    IF a.inf /\ b.inf THEN "Equal"
    ELSE IF a.inf THEN "Greater"
    ELSE IF b.inf THEN "Less"
    ELSE compare_floats(a.num * b.den, b.num * a.den)

\* the order of the ranking: rank ascending, then crowding distance descending, stably
ranked_before(x, y) ==
    \/ x.rank < y.rank
    \/ /\ x.rank = y.rank
       /\ \/ compare_distance(x.crowding_distance, y.crowding_distance) = "Greater"
          \/ /\ compare_distance(x.crowding_distance, y.crowding_distance) = "Equal"
             /\ x.index < y.index

\* the ranking routine may hand back an empty result for inputs up to this length
DEGENERATE_LEN == 1

\* is an empty result possible for an input of the given length
degenerate_choices(len) == IF len <= DEGENERATE_LEN THEN BOOLEAN ELSE {FALSE}

\* the entries of the ranking, sorted: the entry at place p has p - 1 entries before it
sorted_entries(entries) ==
    [p \in 1..Cardinality(entries) |->
        CHOOSE e \in entries : Cardinality({x \in entries : ranked_before(x, e)}) = p - 1]

\* the tuples of lines 72-79 for ranks given as a map from index (from 1 here) to rank
ranked_entries(inds, rank) ==
    {[rank |-> rank[i], index |-> i,
      crowding_distance |-> crowding_distance(inds, {j \in DOMAIN inds : rank[j] = rank[i]}, i),
      fitness |-> fitness(inds[i])] : i \in DOMAIN inds}

\* nsga2::select_and_rank(individuals, individuals.len(), objective) mapped to the tuples
\* of lines 72-79; an empty sequence when the routine is degenerate
select_and_rank(inds, degenerate) ==
    IF degenerate THEN <<>>
    ELSE sorted_entries(ranked_entries(inds, non_dominated_sort(inds, DOMAIN inds, 0, EmptyMap)))

-----------------------------------------------------------------------------
(* DominancePopulation *)

\* new, line 34, with the assertion weakened to >= 0 (mutant)
new_precondition_weak(size) == size >= 0

\* new, line 34: assert!(max_population_size > 0)
new_precondition(size) == size > 0

\* compare_floats on fitnesses
fitness_equal(a, b) == \A m \in Objectives : compare_floats(a[m], b[m]) = "Equal"

\* dedup() on the whole tuple in place of dedup_by (mutant)
same_bucket_whole(a, b) ==
    /\ a.rank = b.rank /\ a.index = b.index
    /\ compare_distance(a.crowding_distance, b.crowding_distance) = "Equal"
    /\ fitness_equal(a.fitness, b.fitness)

\* add_individual, lines 85-87: the closure of dedup_by
same_bucket(a, b) ==
    /\ compare_distance(a.crowding_distance, b.crowding_distance) = "Equal"
    /\ fitness_equal(a.fitness, b.fitness)

\* Vec::dedup_by: an element is dropped when it is in the bucket of the last one kept
RECURSIVE dedup_by(_, _)
dedup_by(order, kept) ==
    IF order = <<>> THEN kept
    ELSE IF kept # <<>> /\ same_bucket(Head(order), kept[Len(kept)])
         THEN dedup_by(Tail(order), kept)
         ELSE dedup_by(Tail(order), Append(kept, Head(order)))

\* add_individual which takes the ranks from the order as it was before dedup_by (mutant)
add_individual_ranks_undeduped(pop, individual, degenerate) ==
    LET pushed == <<Append(pop[1], individual), Append(pop[2], 0)>>
        best_order == select_and_rank(pushed[1], degenerate)
        deduped == dedup_by(best_order, <<>>)
    IN  IF best_order # <<>>
        THEN <<[p \in 1..Len(deduped) |-> pushed[1][deduped[p].index]],
               [p \in 1..Len(deduped) |-> best_order[p].rank]>>
        ELSE pushed

\* add_individual which pushes the individual and leaves the order as it is (mutant)
add_individual_unranked(pop, individual, degenerate) ==
    <<Append(pop[1], individual), Append(pop[2], 0)>>

\* add_individual which ranks the population before it pushes the individual (mutant)
add_individual_push_last(pop, individual, degenerate) ==
    LET best_order == IF pop[1] = <<>> THEN <<>> ELSE select_and_rank(pop[1], degenerate)
        deduped == dedup_by(best_order, <<>>)
    IN  IF best_order # <<>>
        THEN <<Append([p \in 1..Len(deduped) |-> pop[1][deduped[p].index]], individual),
               Append([p \in 1..Len(deduped) |-> deduped[p].rank], 0)>>
        ELSE <<Append(pop[1], individual), Append(pop[2], 0)>>

\* add_individual, lines 64-95, on pop = <<individuals, ranks>>
add_individual(pop, individual, degenerate) ==
    LET pushed == <<Append(pop[1], individual), Append(pop[2], 0)>>
        best_order == select_and_rank(pushed[1], degenerate)
        deduped == dedup_by(best_order, <<>>)
    IN  IF best_order # <<>>
        THEN <<[p \in 1..Len(deduped) |-> pushed[1][deduped[p].index]],
               [p \in 1..Len(deduped) |-> deduped[p].rank]>>
        ELSE pushed

\* ensure_max_population_size which truncates to one entry less than the bound (mutant)
ensure_one_short(pop, size) ==
    IF Len(pop[1]) > size
    THEN <<SubSeq(pop[1], 1, size - 1), SubSeq(pop[2], 1, size - 1)>>
    ELSE pop

\* ensure_max_population_size which clears a population that exceeds the bound (mutant)
ensure_drops_all(pop, size) ==
    IF Len(pop[1]) > size THEN <<<<>>, <<>>>> ELSE pop

\* ensure_max_population_size which keeps the tail of the order (mutant)
ensure_keeps_tail(pop, size) ==
    IF Len(pop[1]) > size
    THEN <<SubSeq(pop[1], Len(pop[1]) - size + 1, Len(pop[1])),
           SubSeq(pop[2], Len(pop[2]) - size + 1, Len(pop[2]))>>
    ELSE pop

\* ensure_max_population_size which never truncates (mutant)
ensure_nothing(pop, size) == pop

\* ensure_max_population_size, lines 97-102
ensure_max_population_size(pop, size) ==
    IF Len(pop[1]) > size
    THEN <<SubSeq(pop[1], 1, size), SubSeq(pop[2], 1, size)>>
    ELSE pop

\* add_all, lines 42-44: the for_each over the individuals; each outcome holds the
\* population and ds, which tells for each insertion whether its ranking was degenerate
RECURSIVE add_each(_, _, _)
add_each(pop, xs, ds) ==
    IF xs = <<>> THEN {[pop |-> pop, ds |-> ds]}
    ELSE UNION {add_each(add_individual(pop, Head(xs), d), Tail(xs), Append(ds, d)) :
                   d \in degenerate_choices(Len(pop[1]) + 1)}

\* add_all without the final enforcement of the bound (mutant)
add_all_unbounded(each, size) == each

\* add_all, lines 41-47: each is the population the for_each left
add_all_result(each, size) == ensure_max_population_size(each, size)

\* add, lines 49-52, on pop = <<individuals, ranks>>
add_result(pop, individual, degenerate, size) ==
    ensure_max_population_size(add_individual(pop, individual, degenerate), size)

\* add called for each individual of xs in turn, with the same rankings
RECURSIVE repeated_add(_, _, _, _)
repeated_add(pop, xs, ds, size) ==
    IF xs = <<>> THEN pop
    ELSE repeated_add(add_result(pop, Head(xs), Head(ds), size), Tail(xs), Tail(ds), size)

EmptyPopulation == <<<<>>, <<>>>>

\* the sum of the counts of the members of S in a log
RECURSIVE bag_size(_, _)
bag_size(log, S) ==
    IF S = {} THEN 0
    ELSE LET x == CHOOSE y \in S : TRUE IN log[x] + bag_size(log, S \ {x})

\* DominancePopulation::new, lines 33-37: a failed assertion leaves no instance
new(size) ==
    /\ IF new_precondition(size)
       THEN pop_state' = "live" /\ max_population_size' = size
       ELSE pop_state' = "panicked" /\ max_population_size' = 0
    /\ individuals' = <<>>
    /\ ranks' = <<>>
    /\ pop_call' = [op |-> "new", size |-> size, given |-> 0, several |-> FALSE,
                    within |-> TRUE, truncated |-> FALSE, degenerate |-> FALSE,
                    repeated |-> EmptyPopulation, out |-> None]
    /\ inserted' = EmptyMap
    /\ UNCHANGED ae_vars

\* the record of an add or add_all call: how many individuals were given, were they
\* several, is size() + len(xs) <= max_population_size + 1 (so that at most the last
\* insertion can exceed the bound), was the population truncated, was a ranking
\* degenerate, and what add for each individual in turn leaves; the call returns nothing
call_record(op, xs, untruncated, ds, repeated) ==
    [op |-> op, size |-> 0,
     given |-> Len(xs),
     several |-> Len(xs) >= 2,
     within |-> Len(individuals) + Len(xs) <= max_population_size + 1,
     truncated |-> Len(untruncated[1]) > max_population_size,
     degenerate |-> \E k \in DOMAIN ds : ds[k],
     repeated |-> repeated,
     out |-> None]

add_step(individual) ==
    /\ pop_state = "live"
    /\ \E d \in degenerate_choices(Len(individuals) + 1) :
       \E pushed \in {add_individual(<<individuals, ranks>>, individual, d)} :
       \E after \in {add_result(<<individuals, ranks>>, individual, d, max_population_size)} :
          /\ individuals' = after[1]
          /\ ranks' = after[2]
          /\ pop_call' = call_record("add", <<individual>>, pushed, <<d>>, after)
    /\ UNCHANGED <<pop_state, max_population_size>>
    /\ UNCHANGED ae_vars

add_all_step(xs) ==
    /\ pop_state = "live"
    /\ \E each \in add_each(<<individuals, ranks>>, xs, <<>>) :
       \E after \in {add_all_result(each.pop, max_population_size)} :
          /\ individuals' = after[1]
          /\ ranks' = after[2]
          /\ pop_call' = call_record("add_all", xs, each.pop, each.ds,
                             repeated_add(<<individuals, ranks>>, xs, each.ds,
                                          max_population_size))
    /\ UNCHANGED <<pop_state, max_population_size>>
    /\ UNCHANGED ae_vars

\* Population::add
add(individual) == add_step(individual) /\ UNCHANGED inserted

\* Population::add_all
add_all(xs) == add_all_step(xs) /\ UNCHANGED inserted

\* the number of individuals in the scenario log
logged(log) == IF DOMAIN log = {} THEN 0 ELSE bag_size(log, DOMAIN log)

\* Population::add in a scenario, which logs what it is given
scenario_add(individual) ==
    /\ logged(inserted) < MaxInserted
    /\ add_step(individual)
    /\ inserted' = [x \in (DOMAIN inserted) \cup {individual} |->
                       IF x \in DOMAIN inserted
                       THEN inserted[x] + (IF x = individual THEN 1 ELSE 0)
                       ELSE 1]

\* Population::add in a scenario which logs what it is given in the order of the calls
ordered_add(individual) ==
    /\ Len(inserted) < MaxInserted
    /\ add_step(individual)
    /\ inserted' = Append(inserted, individual)

\* Iterator::zip which stops one pair early (mutant)
zip_one_short(xs, ys) ==
    [i \in 1..((IF Len(xs) <= Len(ys) THEN Len(xs) ELSE Len(ys)) - 1) |-> <<xs[i], ys[i]>>]

\* Iterator::zip, line 55: pairs up to the end of the shorter sequence
zip(xs, ys) ==
    [i \in 1..(IF Len(xs) <= Len(ys) THEN Len(xs) ELSE Len(ys)) |-> <<xs[i], ys[i]>>]

\* the record of a call which reads the population and returns out
read_record(op, out) ==
    [op |-> op, size |-> 0, given |-> 0, several |-> FALSE, within |-> TRUE,
     truncated |-> FALSE, degenerate |-> FALSE, repeated |-> EmptyPopulation,
     out |-> Some(out)]

\* Population::ranked, lines 54-56: the pairs the iterator yields
ranked ==
    /\ pop_state = "live"
    /\ pop_call' = read_record("ranked", zip(individuals, ranks))
    /\ UNCHANGED <<pop_state, max_population_size, individuals, ranks, inserted>>
    /\ UNCHANGED ae_vars

\* Population::size, lines 58-60
size_read ==
    /\ pop_state = "live"
    /\ pop_call' = read_record("size", Len(individuals))
    /\ UNCHANGED <<pop_state, max_population_size, individuals, ranks, inserted>>
    /\ UNCHANGED ae_vars

-----------------------------------------------------------------------------

Maps == UNION {[D -> Values] : D \in SUBSET Actions}

InitEstimate ==
    /\ estimates = EmptyMap
    /\ max_estimate = None
    /\ min_estimate = None
    /\ ae_call = [op |-> "default", overwrite |-> FALSE, empty |-> TRUE,
                  out |-> None, request |-> None]

InitPopulation ==
    /\ pop_state = "none"
    /\ max_population_size = 0
    /\ individuals = <<>>
    /\ ranks = <<>>
    /\ pop_call = [op |-> "none", size |-> 0, given |-> 0, several |-> FALSE,
                   within |-> TRUE, truncated |-> FALSE, degenerate |-> FALSE,
                   repeated |-> EmptyPopulation, out |-> None]
    /\ inserted = EmptyMap

Init == InitEstimate /\ InitPopulation

NextEstimate ==
    \/ default
    \/ \E map \in Maps : from(map)
    \/ \E action \in Actions, estimate \in Values : insert(action, estimate)
    \/ \E lns \in [DOMAIN estimates -> LnDraws] : weighted(lns)
    \/ random

SpecEstimate == Init /\ [][NextEstimate]_vars

NextInsertOnce ==
    \/ default
    \/ \E action \in FreshActions, estimate \in Values : insert_fresh(action, estimate)

SpecInsertOnce == Init /\ [][NextInsertOnce]_vars

NextPopulation ==
    \/ \E size \in 0..MaxCapacity : new(size)
    \/ \E individual \in Individuals : add(individual)
    \/ \E xs \in Batches(Individuals) : add_all(xs)

SpecPopulation == Init /\ [][NextPopulation]_vars

NextScenario ==
    \/ \E size \in 0..MaxCapacity : new(size)
    \/ \E individual \in FrontIndividuals : scenario_add(individual)

SpecScenario == Init /\ [][NextScenario]_vars

NextChain ==
    \/ \E size \in 0..MaxCapacity : new(size)
    \/ \E individual \in ChainIndividuals : ordered_add(individual)
    \/ ranked
    \/ size_read

SpecChain == Init /\ [][NextChain]_vars

-----------------------------------------------------------------------------
(* Claims *)

\* C1: after each insert, the value of max_estimate() is the maximum of all values in
\* data() and the value of min_estimate() is the minimum of all values in data(),
\* also when the insert overwrites the action cached as an extreme.
C1_ExtremesAreTrueExtremes ==
    DOMAIN estimates # {} =>
        /\ max_estimate # None
        /\ Unwrap(max_estimate)[2] = MaxOf(ValuesOf(estimates))
        /\ min_estimate # None
        /\ Unwrap(min_estimate)[2] = MinOf(ValuesOf(estimates))

\* C2: after every add and add_all on a population, size() <= max_population_size.
C2_SizeWithinBound ==
    pop_state = "live" => Len(individuals) <= max_population_size

\* an add_all which grew the population beyond its bound and was truncated to it
C2_Witness ==
    /\ pop_state = "live"
    /\ pop_call.op = "add_all"
    /\ pop_call.truncated
    /\ Len(individuals) = max_population_size

\* C3: after any add or add_all, ranked() yields the ranks in non-decreasing order.
C3_RanksNonDecreasing ==
    pop_state = "live" =>
        \A i \in DOMAIN ranks : \A j \in DOMAIN ranks : i < j => ranks[i] <= ranks[j]

\* an insertion which left individuals of different ranks
C3_Witness ==
    /\ pop_call.op \in {"add", "add_all"}
    /\ Len(ranks) >= 2
    /\ ranks[1] < ranks[Len(ranks)]

\* is the scenario log two insertions of one and the same individual
TwiceTheSame ==
    /\ Cardinality(DOMAIN inserted) = 1
    /\ \A x \in DOMAIN inserted : inserted[x] = 2

\* C4: two individuals of identical fitness added one after the other to an empty
\* population of capacity >= 2 leave size() = 1.
C4_DuplicateCollapses ==
    (pop_state = "live" /\ max_population_size >= 2 /\ TwiceTheSame) => Len(individuals) = 1

\* the second of two identical individuals was added and the population holds one
C4_Witness ==
    /\ pop_state = "live" /\ max_population_size >= 2 /\ TwiceTheSame
    /\ pop_call.op = "add"
    /\ Len(individuals) = 1

\* C5 as stated: add_all(xs) leaves the individuals and the ranks which add(x) for each
\* x of xs in turn leaves.
C5_AddAllIsRepeatedAdd ==
    pop_call.op = "add_all" => <<individuals, ranks>> = pop_call.repeated

\* C5 as amended: add_all(xs) leaves the individuals and the ranks which add(x) for each
\* x of xs in turn leaves whenever size() + len(xs) <= max_population_size + 1, so that
\* no add but the last one truncates.
C5_AddAllIsRepeatedAddWithinBound ==
    (pop_call.op = "add_all" /\ pop_call.within) => <<individuals, ranks>> = pop_call.repeated

\* an add_all of several individuals which was truncated once, at its end
C5_Witness ==
    /\ pop_call.op = "add_all"
    /\ pop_call.several
    /\ pop_call.within
    /\ pop_call.truncated
    /\ <<individuals, ranks>> = pop_call.repeated

\* C6: on an empty ActionsEstimate weighted and random return None and do not fail,
\* and random asks for no uniform integer over an invalid range (low > high).
C6_EmptySelectionIsNone ==
    (ae_call.op \in {"weighted", "random"} /\ ae_call.empty) =>
        /\ ae_call.out = None
        /\ ae_call.request # None => Unwrap(ae_call.request)[1] <= Unwrap(ae_call.request)[2]

\* C7: max_estimate() is None if and only if data() is empty, and so is min_estimate().
C7_ExtremesNoneIffEmpty ==
    /\ max_estimate = None <=> DOMAIN estimates = {}
    /\ min_estimate = None <=> DOMAIN estimates = {}

\* the first insert into an empty estimate has seeded both extremes
C7_Witness ==
    /\ ae_call.op = "insert"
    /\ ~ae_call.overwrite
    /\ Cardinality(DOMAIN estimates) = 1
    /\ max_estimate # None
    /\ min_estimate # None

\* C8: new fails when max_population_size = 0, so that no population of capacity zero
\* exists; for max_population_size >= 1 it returns an empty population.
C8_NewRejectsZeroCapacity ==
    /\ pop_state = "live" => max_population_size >= 1
    /\ pop_call.op = "new" =>
          IF pop_call.size = 0
          THEN pop_state = "panicked"
          ELSE /\ pop_state = "live"
               /\ max_population_size = pop_call.size
               /\ individuals = <<>>
               /\ ranks = <<>>

\* new was called with zero and failed
C8_Witness ==
    /\ pop_call.op = "new"
    /\ pop_call.size = 0
    /\ pop_state = "panicked"

\* the estimate set {A: -1.0, B: 2.0}
NegativeEstimates == [a \in {"A", "B"} |-> IF a = "A" THEN 0 - Scale ELSE 2 * Scale]

\* the estimate set {A: 0.0, B: 0.0}
ZeroEstimates == [a \in {"A", "B"} |-> 0]

\* C9: for the estimate sets {A: -1, B: 2} and {A: 0, B: 0} weighted does not fail and
\* returns Some action, whatever the uniform draws in (0,1) are.
C9_WeightedReturnsSome ==
    (ae_call.op = "weighted" /\ estimates \in {NegativeEstimates, ZeroEstimates}) =>
        ae_call.out \in {Some(a) : a \in DOMAIN estimates}

\* weighted was called on {A: -1, B: 2}, where the weight of A is shifted to zero
C9_Witness ==
    /\ ae_call.op = "weighted"
    /\ estimates = NegativeEstimates
    /\ min_estimate = Some(<<"A", 0 - Scale>>)
    /\ ae_call.out = Some("B")

\* is the scenario log one insertion of each of the five individuals of the front
WholeFront == inserted = [x \in FrontIndividuals |-> 1]

\* C10: in a population of capacity 3, after the five mutually non-dominated individuals
\* (1,5), (2,4), (3,3), (4,2), (5,1) were inserted, size() = 3, every individual has
\* rank 0, and (1,5) and (5,1) are retained together with exactly one of the others.
C10_FrontKeepsExtremes ==
    (pop_state = "live" /\ max_population_size = 3 /\ WholeFront) =>
        /\ Len(individuals) = 3
        /\ \A i \in DOMAIN ranks : ranks[i] = 0
        /\ \E i \in DOMAIN individuals : individuals[i] = <<1, 5>>
        /\ \E i \in DOMAIN individuals : individuals[i] = <<5, 1>>
        /\ Cardinality({i \in DOMAIN individuals :
                           individuals[i] \in {<<2, 4>>, <<3, 3>>, <<4, 2>>}}) = 1

\* the fifth individual of the front was added to a full population of capacity 3
C10_Witness ==
    /\ pop_state = "live" /\ max_population_size = 3 /\ WholeFront
    /\ pop_call.op = "add" /\ pop_call.truncated
    /\ Len(individuals) = 3

\* is the scenario log the insertion of (1,1), then (2,2), then (0,0)
DominatorLast == inserted = <<<<1, 1>>, <<2, 2>>, <<0, 0>>>>

\* C11: in a population of capacity 2, after (1,1), then (2,2), then (0,0), which
\* dominates both, were inserted, (0,0) is the first of ranked() with rank 0, every
\* other individual comes after it with a greater rank, and (0,0) is retained.
C11_DominatorRankedFirst ==
    (pop_state = "live" /\ max_population_size = 2 /\ DominatorLast) =>
        /\ Len(individuals) = 2
        /\ individuals[1] = <<0, 0>>
        /\ ranks[1] = 0
        /\ \A i \in DOMAIN individuals : i > 1 => individuals[i] # <<0, 0>> /\ ranks[i] > 0

\* (0,0) was added to the full population of (1,1) and (2,2), which was truncated
C11_Witness ==
    /\ pop_state = "live" /\ max_population_size = 2 /\ DominatorLast
    /\ pop_call.op = "add" /\ pop_call.truncated
    /\ <<individuals, ranks>> = <<<<<<0, 0>>, <<1, 1>>>>, <<0, 1>>>>

\* C12: an add whose ranking returns an empty result is a no-op: the individuals and
\* the ranks after the call are the ones before the call, and the individual given and
\* its placeholder rank are not left in the population.
C12_EmptyRankingIsNoOp ==
    [][(pop_call'.op = "add" /\ pop_call'.degenerate) =>
           (individuals' = individuals /\ ranks' = ranks)]_vars

\* C13: an insert of a value >= the cached maximum makes <<action, value>> the cached
\* maximum, an insert of a value <= the cached minimum makes it the cached minimum (on a
\* tie the action inserted replaces the action cached), and otherwise the cached
\* extremes are unchanged.
C13_TieReplacesExtreme ==
    [][\A action \in Actions, estimate \in Values :
          insert(action, estimate) =>
              /\ max_estimate # None =>
                    max_estimate' = IF estimate >= Unwrap(max_estimate)[2]
                                    THEN Some(<<action, estimate>>) ELSE max_estimate
              /\ min_estimate # None =>
                    min_estimate' = IF estimate <= Unwrap(min_estimate)[2]
                                    THEN Some(<<action, estimate>>) ELSE min_estimate]_vars

\* C14: in every reachable estimate set, the divisor v + offset which weighted computes
\* is strictly positive for every action, so that no key is a quotient by zero or by a
\* negative weight.
C14_DivisorsPositive ==
    \A a \in DOMAIN estimates : estimates[a] + offset > 0

\* C15: when the insertion leaves more than max_population_size entries, add keeps
\* exactly the first max_population_size entries of both sequences, and every entry it
\* discards has a rank >= the rank of every entry it keeps; when the size is within the
\* bound both sequences are left as the insertion made them.
C15_TruncationKeepsPrefix ==
    [][\A individual \in ChainIndividuals :
          ordered_add(individual) =>
              LET grown == add_individual(<<individuals, ranks>>, individual,
                                          pop_call'.degenerate)
                  n == max_population_size
              IN  IF Len(grown[1]) > n
                  THEN /\ individuals' = SubSeq(grown[1], 1, n)
                       /\ ranks' = SubSeq(grown[2], 1, n)
                       /\ \A i \in (n + 1)..Len(grown[2]) : \A j \in 1..n :
                              grown[2][i] >= grown[2][j]
                  ELSE individuals' = grown[1] /\ ranks' = grown[2]]_vars

\* (2,2) was added to the full population of (0,0) and (1,1) and was discarded
C15_Witness ==
    /\ pop_state = "live" /\ max_population_size = 2
    /\ inserted = <<<<0, 0>>, <<1, 1>>, <<2, 2>>>>
    /\ pop_call.op = "add" /\ pop_call.truncated
    /\ <<individuals, ranks>> = <<<<<<0, 0>>, <<1, 1>>>>, <<0, 1>>>>

\* C16: individuals and ranks have the same length, and ranks[i] is the Pareto rank of
\* individuals[i] in the population, for every i.
C16_RanksAligned ==
    /\ Len(individuals) = Len(ranks)
    /\ \A i \in DOMAIN individuals :
          ranks[i] = non_dominated_sort(individuals, DOMAIN individuals, 0, EmptyMap)[i]

\* an add_all of two individuals left three individuals of the ranks 0, 1 and 2
C16_Witness ==
    /\ pop_call.op = "add_all"
    /\ pop_call.given = 2
    /\ ranks = <<0, 1, 2>>

\* C17: from(map) on a populated map caches as maximum a pair (a, v) with data()[a] = v
\* and v the maximum of all values, and likewise for the minimum; from an empty map
\* both extremes are None.
C17_FromSeedsExtremes ==
    ae_call.op = "from" =>
        IF DOMAIN estimates = {}
        THEN max_estimate = None /\ min_estimate = None
        ELSE /\ max_estimate # None
             /\ Unwrap(max_estimate)[1] \in DOMAIN estimates
             /\ estimates[Unwrap(max_estimate)[1]] = Unwrap(max_estimate)[2]
             /\ Unwrap(max_estimate)[2] = MaxOf(ValuesOf(estimates))
             /\ min_estimate # None
             /\ Unwrap(min_estimate)[1] \in DOMAIN estimates
             /\ estimates[Unwrap(min_estimate)[1]] = Unwrap(min_estimate)[2]
             /\ Unwrap(min_estimate)[2] = MinOf(ValuesOf(estimates))

\* from was called on a map of two actions with different values
C17_Witness ==
    /\ ae_call.op = "from"
    /\ Cardinality(DOMAIN estimates) = 2
    /\ max_estimate # None /\ min_estimate # None
    /\ Unwrap(max_estimate)[2] > Unwrap(min_estimate)[2]

\* C18: ranked() and size() leave individuals, ranks and max_population_size unchanged;
\* ranked() yields exactly the pairs (individuals[i], ranks[i]) of the state it is
\* called in, in order, so that two ranked() calls with no add or add_all between them
\* yield the same pairs; a size() which follows a ranked() returns the number of pairs.
C18_ReadersAreReadOnly ==
    [][(ranked \/ size_read) =>
          /\ UNCHANGED <<individuals, ranks, max_population_size>>
          /\ pop_call'.op = "ranked" =>
                /\ Len(Unwrap(pop_call'.out)) = Len(individuals)
                /\ \A i \in DOMAIN individuals :
                       Unwrap(pop_call'.out)[i] = <<individuals[i], ranks[i]>>
          /\ (pop_call'.op = "size" /\ pop_call.op = "ranked") =>
                Unwrap(pop_call'.out) = Len(Unwrap(pop_call.out))]_vars

\* ranked() was called on a population of two individuals
C18_Witness ==
    /\ pop_call.op = "ranked"
    /\ Len(individuals) = 2
    /\ Unwrap(pop_call.out) = <<<<individuals[1], ranks[1]>>, <<individuals[2], ranks[2]>>>>

\* C19: in a run of inserts from an empty estimate in which no action is inserted twice,
\* after each insert the cached maximum is a pair (a, v) with data()[a] = v and v the
\* maximum of all values, and likewise the cached minimum.
C19_FreshInsertsKeepExtremes ==
    DOMAIN estimates # {} =>
        /\ max_estimate # None
        /\ Unwrap(max_estimate)[1] \in DOMAIN estimates
        /\ estimates[Unwrap(max_estimate)[1]] = Unwrap(max_estimate)[2]
        /\ Unwrap(max_estimate)[2] = MaxOf(ValuesOf(estimates))
        /\ min_estimate # None
        /\ Unwrap(min_estimate)[1] \in DOMAIN estimates
        /\ estimates[Unwrap(min_estimate)[1]] = Unwrap(min_estimate)[2]
        /\ Unwrap(min_estimate)[2] = MinOf(ValuesOf(estimates))

\* three actions were inserted once each, and the last one lowered the minimum
C19_Witness ==
    /\ ae_call.op = "insert" /\ ~ae_call.overwrite
    /\ DOMAIN estimates = FreshActions
    /\ estimates["A"] > estimates["B"] /\ estimates["B"] > estimates["C"]
    /\ min_estimate = Some(<<"C", estimates["C"]>>)
    /\ max_estimate = Some(<<"A", estimates["A"]>>)

\* C20: after any add, and after any add_all of a non-empty list, size() >= 1; add_all
\* of an empty list leaves individuals and ranks unchanged.
C20_NonEmptyAfterInsertion ==
    [][/\ (pop_call'.op \in {"add", "add_all"} /\ pop_call'.given >= 1) =>
              Len(individuals') >= 1
       /\ add_all(<<>>) => (individuals' = individuals /\ ranks' = ranks)]_vars

\* an add_all of two individuals to a full population of capacity 1 left one individual
C20_Witness ==
    /\ pop_call.op = "add_all"
    /\ pop_call.given = 2
    /\ pop_call.truncated
    /\ max_population_size = 1
    /\ Len(individuals) = 1

====
